---- MODULE Spec2Model ----
(***************************************************************************)
(* A model of fdest.FgcmDesTransmission (src/fdest/fdest.py): the engine   *)
(* that combines per-detector instrumental throughput with per-exposure    *)
(* atmospheric throughput on a cached wavelength grid.                     *)
(*                                                                         *)
(* Python objects are modelled as follows.                                 *)
(*   - an attribute that was never assigned is Unset (reading it raises    *)
(*     AttributeError), the value None is None, any other value v is       *)
(*     Obj(v);                                                             *)
(*   - a 1-D array is a sequence, a 2-D array a sequence of rows;          *)
(*   - a dict is a function whose domain is its key set;                   *)
(*   - a string that the code takes apart (an extension name) is a         *)
(*     sequence of one-character strings, and so is a band identifier;     *)
(*   - a method is an operator from the object before the call and the     *)
(*     arguments to [self |-> the object after the call, out |-> Return(v) *)
(*     or Raise(exception, source line)];                                  *)
(*   - throughputs are integers (per cent), wavelengths are integers       *)
(*     (Angstroms); the linear interpolant divides with \div.              *)
(* fitsio is an external library: what it hands back for the two files is  *)
(* the input of the model (ccd_file, atm_file).                            *)
(***************************************************************************)
EXTENDS Integers, Sequences, FiniteSets, TLC

VARIABLES ccd_file, atm_file, pc, self, last

vars == <<ccd_file, atm_file, pc, self, last>>

-----------------------------------------------------------------------------
(* Bounds *)

MaxGridLen == 2

(* Python values *)

Unset == [tag |-> "Unset"]

None == [tag |-> "None"]

Obj(v) == [tag |-> "obj", val |-> v]

Return(v) == [kind |-> "return", val |-> v]

Raise(e, l) == [kind |-> "raise", exc |-> e, line |-> l]

EmptyDict == [k \in {} |-> 0]

DictSet(d, key, v) == [k \in (DOMAIN d) \cup {key} |-> IF k = key THEN v ELSE d[k]]

-----------------------------------------------------------------------------
(* Inputs: the wavelengths a caller may ask for, and the two files. *)

Wavelengths == {7000, 12000}

Grids == UNION {[1..n -> Wavelengths] : n \in 0..MaxGridLen}

WavelengthArgs == {None} \cup {Obj(g) : g \in Grids}

g_band == <<"g">>

k_band == <<"k">>

BandArgs == {g_band, k_band}

ExpnumArgs == {226650, 1000000}

CcdnumArgs == {0, 1, 2, 3}

\* One extension of the ccd file: its name and the table hdu.read() gives.
\* throughput_ccd has one row per lambda sample and one column per ccd.
Hdu(name, avg, ccd) ==
    [extname |-> name,
     data |-> [lambda |-> <<3000, 11000>>, throughput_avg |-> avg, throughput_ccd |-> ccd]]

CcdFiles ==
    { <<Hdu(<<"g", "_", "t">>, <<0, 80>>, << <<0>>, <<80>> >>)>>,
      <<Hdu(<<"g", "_", "t">>, <<0, 80>>, << <<0, -2>>, <<80, 60>> >>),
        Hdu(<<"r", "_", "t">>, <<-4, 90>>, << <<2, 0>>, <<90, 70>> >>)>>,
      <<Hdu(<<"g", "_", "a">>, <<0, 80>>, << <<0, 0>>, <<80, 60>> >>),
        Hdu(<<"g", "_", "b">>, <<0, 40>>, << <<0, 0>>, <<40, 20>> >>)>> }

\* The table fitsio.read gives for the atmosphere file: ndim is the number of
\* dimensions of the record array, throughput its rows, expnum the parallel
\* column.  Row 0 holds the wavelengths, row 1 the standard atmosphere.
AtmTable(nd, rows, ids) == [ndim |-> nd, throughput |-> rows, expnum |-> ids]

AtmFiles ==
    { AtmTable(2, << <<3000, 11000>>, <<0, 100>>, <<0, 90>> >>, <<0, 0, 226650>>),
      AtmTable(2, << <<3000, 11000>>, <<-6, 100>>, <<0, 90>>, <<10, 70>> >>,
               <<0, 0, 226650, 226650>>),
      AtmTable(2, << <<3000, 11000>>, <<0, 100>> >>, <<0, 0>>),
      AtmTable(1, << <<3000, 11000>>, <<0, 100>>, <<0, 90>> >>, <<0, 0, 226650>>) }

-----------------------------------------------------------------------------
(* numpy / scipy helpers *)

\* np.clip(a, 0.0, 1e100) on one element; no modelled value reaches 1e100.
clip(v) == IF v < 0 THEN 0 ELSE v

\* interpolate.interp1d(x, y): the interpolant is the pair it was built from.
interp1d(x, y) == [x |-> x, y |-> y]

\* Index of the segment of x that holds v, for x[1] <= v <= x[Len(x)].
RECURSIVE Segment(_, _, _)
Segment(x, v, i) ==
    IF i >= Len(x) - 1 \/ v <= x[i + 1] THEN i ELSE Segment(x, v, i + 1)

\* The piecewise-linear value of the interpolant at v.
Linear(x, y, v) ==
    LET i == Segment(x, v, 1)
    IN  y[i] + ((y[i + 1] - y[i]) * (v - x[i])) \div (x[i + 1] - x[i])

\* interp1d has bounds_error set by default: a point outside [x[0], x[-1]]
\* makes the call raise ValueError.
InBounds(ifunc, w) ==
    \A i \in 1..Len(w) : ifunc.x[1] <= w[i] /\ w[i] <= ifunc.x[Len(ifunc.x)]

\* ifunc(w) for a 1-D y, for w within bounds.
Eval(ifunc, w) == [i \in 1..Len(w) |-> Linear(ifunc.x, ifunc.y, w[i])]

\* Column j (0-based) of a 2-D array.
Column(m, j) == [i \in 1..Len(m) |-> m[i][j + 1]]

\* np.zeros((n, c))
zeros(n, c) == [i \in 1..n |-> [j \in 1..c |-> 0]]

\* hdu.get_extname().split('_')[0]
RECURSIVE Split0(_)
Split0(name) ==
    IF name = <<>> \/ Head(name) = "_" THEN <<>>
    ELSE <<Head(name)>> \o Split0(Tail(name))

\* u, = np.where(expnum_column == expnum): the matching row indices, in order.
RECURSIVE Where(_, _, _)
Where(col, expnum, i) ==
    IF i > Len(col) THEN <<>>
    ELSE (IF col[i] = expnum THEN <<i>> ELSE <<>>) \o Where(col, expnum, i + 1)

-----------------------------------------------------------------------------
(* Construction *)

\* The object before __init__ has assigned anything.
Blank ==
    [ccd_data |-> Unset, atm_data |-> Unset, bands |-> Unset, nccd |-> Unset,
     atm_wavelengths |-> Unset, atm_std |-> Unset,
     wavelengths |-> Unset, std_ifunc |-> Unset,
     band_tput_interp |-> Unset, band_ccd_interp |-> Unset]

\* The loop over the extensions in _read_ccd_file.
RECURSIVE ReadHdus(_, _, _)
ReadHdus(s, fits, i) ==
    IF i > Len(fits) THEN s
    ELSE LET parts0 == Split0(fits[i].extname)
             data == fits[i].data
             s1 == [s EXCEPT !.ccd_data = Obj(DictSet(@.val, parts0, data)),
                             !.bands = Append(@, parts0),
                             !.nccd = IF @ = None
                                      THEN Obj(Len(data.throughput_ccd[1]))
                                      ELSE @]
         IN  ReadHdus(s1, fits, i + 1)

\* _read_ccd_file fills the object and returns nothing (None).
read_ccd_file(s, fits) ==
    LET s1 == [s EXCEPT !.ccd_data = Obj(EmptyDict), !.bands = <<>>, !.nccd = None]
    IN  [self |-> ReadHdus(s1, fits, 1), out |-> Return(None)]

\* _read_atm_file: rows 0 and 1 are taken from the throughput column, then
\* the record array itself is indexed with [2:, :], which numpy refuses for
\* a 1-D array.  Returns nothing (None).
read_atm_file(s, atm_data) ==
    IF Len(atm_data.throughput) < 1 THEN [self |-> s, out |-> Raise("IndexError", 167)]
    ELSE LET s1 == [s EXCEPT !.atm_wavelengths = atm_data.throughput[1]]
         IN  IF Len(atm_data.throughput) < 2
             THEN [self |-> s1, out |-> Raise("IndexError", 169)]
             ELSE LET s2 == [s1 EXCEPT !.atm_std = atm_data.throughput[2]]
                      n == Len(atm_data.throughput)
                  IN  IF atm_data.ndim < 2
                      THEN [self |-> s2, out |-> Raise("IndexError", 171)]
                      ELSE [self |-> [s2 EXCEPT !.atm_data =
                                       Obj([throughput |-> SubSeq(atm_data.throughput, 3, n),
                                            expnum |-> SubSeq(atm_data.expnum, 3, n)])],
                            out |-> Return(None)]

\* __init__: each table attribute is assigned what its reader returns.
FgcmDesTransmission(fits, atm_data) ==
    LET r1 == read_ccd_file(Blank, fits)
        s1 == [r1.self EXCEPT !.ccd_data = r1.out.val]
        r2 == read_atm_file(s1, atm_data)
    IN  IF r2.out.kind = "raise" THEN r2
        ELSE [self |-> [r2.self EXCEPT !.atm_data = r2.out.val,
                                       !.wavelengths = None,
                                       !.std_ifunc = None],
              out |-> Return(None)]

-----------------------------------------------------------------------------
(* Methods *)

\* The loop over self.bands in set_wavelengths, from band number i on.
RECURSIVE BandLoop(_, _)
BandLoop(s, i) ==
    IF i > Len(s.bands) THEN [self |-> s, out |-> Return(None)]
    ELSE LET band == s.bands[i] IN
         IF s.ccd_data = None THEN [self |-> s, out |-> Raise("TypeError", 45)]
         ELSE LET rec == s.ccd_data.val[band]
                  w == s.wavelengths.val
                  ifunc == interp1d(rec.lambda, rec.throughput_avg)
              IN  IF ~InBounds(ifunc, w) THEN [self |-> s, out |-> Raise("ValueError", 47)]
                  ELSE LET tput == [k \in 1..Len(w) |-> clip(Eval(ifunc, w)[k])]
                           s1 == [s EXCEPT
                                    !.band_tput_interp = Obj(DictSet(@.val, band, tput)),
                                    !.band_ccd_interp =
                                        Obj(DictSet(@.val, band, zeros(Len(w), s.nccd.val)))]
                       IN  IF s.nccd.val = 0 THEN BandLoop(s1, i + 1)
                           \* j = 0: ifunc(self._wavelengths, j) passes two
                           \* arguments to a call that takes one.
                           ELSE [self |-> s1, out |-> Raise("TypeError", 52)]

set_wavelengths(s, wavelengths) ==
    IF s.wavelengths # None /\ Len(wavelengths) = Len(s.wavelengths.val)
    \* np.allclose is called with one argument
    THEN [self |-> s, out |-> Raise("TypeError", 35)]
    ELSE BandLoop([s EXCEPT !.wavelengths = Obj(wavelengths),
                            !.band_tput_interp = Obj(EmptyDict),
                            !.band_ccd_interp = Obj(EmptyDict)], 1)

get_wavelengths(s) == [self |-> s, out |-> Return(s.wavelengths)]

\* Lines 89-104 of get_transmission, after the optional set_wavelengths.
Transmission(s, band, expnum, ccdnum) ==
    IF s.atm_data = None THEN [self |-> s, out |-> Raise("TypeError", 89)]
    ELSE LET u == Where(s.atm_data.val.expnum, expnum, 1)
             ccd_index == ccdnum - 1
         IN  IF Len(u) = 0 THEN [self |-> s, out |-> Raise("ValueError", 91)]
             ELSE IF ccd_index < 0 \/ ccd_index >= s.nccd.val
                  THEN [self |-> s, out |-> Raise("ValueError", 95)]
             ELSE IF s.band_ccd_interp = Unset
                  THEN [self |-> s, out |-> Raise("AttributeError", 97)]
             ELSE IF band \notin DOMAIN s.band_ccd_interp.val
                  THEN [self |-> s, out |-> Raise("ValueError", 98)]
             ELSE LET w == s.wavelengths.val
                      col == Column(s.band_ccd_interp.val[band], ccd_index)
                      \* one row of the result per matching row of the table
                      rows == [r \in 1..Len(u) |->
                                 LET ifunc == interp1d(s.atm_wavelengths,
                                                       s.atm_data.val.throughput[u[r]])
                                 IN  [k \in 1..Len(w) |-> clip(Eval(ifunc, w)[k]) * col[k]]]
                  IN  IF ~InBounds(interp1d(s.atm_wavelengths, s.atm_wavelengths), w)
                      THEN [self |-> s, out |-> Raise("ValueError", 102)]
                      ELSE [self |-> s, out |-> Return(Obj(rows))]

get_transmission(s, band, expnum, ccdnum, wavelengths) ==
    LET r == IF wavelengths # None THEN set_wavelengths(s, wavelengths.val)
             ELSE [self |-> s, out |-> Return(None)]
    IN  IF r.out.kind = "raise" THEN r
        ELSE Transmission(r.self, band, expnum, ccdnum)

\* get_std_transmission with a fallback grid: a call without a wavelengths
\* argument sets the atmospheric wavelengths as the grid.
get_std_transmission_default_grid(s, band, wavelengths) ==
    LET s0 == IF s.std_ifunc = None
              THEN [s EXCEPT !.std_ifunc = Obj(interp1d(s.atm_wavelengths, s.atm_std))]
              ELSE s
        r == set_wavelengths(s0, IF wavelengths # None THEN wavelengths.val
                                 ELSE s0.atm_wavelengths)
        s1 == r.self
    IN  IF r.out.kind = "raise" THEN r
        ELSE IF band \notin DOMAIN s1.band_tput_interp.val
             THEN [self |-> s1, out |-> Raise("ValueError", 131)]
        ELSE LET w == s1.wavelengths.val
                 ifunc == s1.std_ifunc.val
             IN  IF ~InBounds(ifunc, w) THEN [self |-> s1, out |-> Raise("ValueError", 133)]
                 ELSE [self |-> s1,
                       out |-> Return(Obj([k \in 1..Len(w) |->
                                  clip(Eval(ifunc, w)[k]) * s1.band_tput_interp.val[band][k]]))]

get_std_transmission(s, band, wavelengths) ==
    LET s0 == IF s.std_ifunc = None
              THEN [s EXCEPT !.std_ifunc = Obj(interp1d(s.atm_wavelengths, s.atm_std))]
              ELSE s
        r == IF wavelengths # None THEN set_wavelengths(s0, wavelengths.val)
             ELSE [self |-> s0, out |-> Return(None)]
        s1 == r.self
    IN  IF r.out.kind = "raise" THEN r
        ELSE IF s1.band_tput_interp = Unset
             THEN [self |-> s1, out |-> Raise("AttributeError", 130)]
        ELSE IF band \notin DOMAIN s1.band_tput_interp.val
             THEN [self |-> s1, out |-> Raise("ValueError", 131)]
        ELSE LET w == s1.wavelengths.val
                 ifunc == s1.std_ifunc.val
             IN  IF ~InBounds(ifunc, w) THEN [self |-> s1, out |-> Raise("ValueError", 133)]
                 ELSE [self |-> s1,
                       out |-> Return(Obj([k \in 1..Len(w) |->
                                  clip(Eval(ifunc, w)[k]) * s1.band_tput_interp.val[band][k]]))]

-----------------------------------------------------------------------------
(* The state machine.  last records the most recent call: the method, its  *)
(* arguments (a placeholder where the method has none), the object before  *)
(* the call and the outcome.                                               *)

Call(op, band, expnum, ccdnum, wavelengths, pre, out) ==
    [op |-> op, band |-> band, expnum |-> expnum, ccdnum |-> ccdnum,
     wavelengths |-> wavelengths, pre |-> pre, out |-> out]

Init ==
    /\ ccd_file \in CcdFiles
    /\ atm_file \in AtmFiles
    /\ pc = "new"
    /\ self = Blank
    /\ last = Call("none", <<>>, 0, 0, None, Blank, Return(None))

Construct ==
    /\ pc = "new"
    /\ LET r == FgcmDesTransmission(ccd_file, atm_file)
       IN  /\ self' = r.self
           /\ pc' = IF r.out.kind = "raise" THEN "failed" ELSE "ready"
           /\ last' = Call("init", <<>>, 0, 0, None, self, r.out)
    /\ UNCHANGED <<ccd_file, atm_file>>

SetWavelengths ==
    /\ pc = "ready"
    /\ \E w \in Grids :
         LET r == set_wavelengths(self, w)
         IN  /\ self' = r.self
             /\ last' = Call("set_wavelengths", <<>>, 0, 0, Obj(w), self, r.out)
    /\ UNCHANGED <<ccd_file, atm_file, pc>>

GetWavelengths ==
    /\ pc = "ready"
    /\ LET r == get_wavelengths(self)
       IN  /\ self' = r.self
           /\ last' = Call("get_wavelengths", <<>>, 0, 0, None, self, r.out)
    /\ UNCHANGED <<ccd_file, atm_file, pc>>

GetTransmission ==
    /\ pc = "ready"
    /\ \E band \in BandArgs, expnum \in ExpnumArgs, ccdnum \in CcdnumArgs,
          w \in WavelengthArgs :
         LET r == get_transmission(self, band, expnum, ccdnum, w)
         IN  /\ self' = r.self
             /\ last' = Call("get_transmission", band, expnum, ccdnum, w, self, r.out)
    /\ UNCHANGED <<ccd_file, atm_file, pc>>

GetStdTransmission ==
    /\ pc = "ready"
    /\ \E band \in BandArgs, w \in WavelengthArgs :
         LET r == get_std_transmission(self, band, w)
         IN  /\ self' = r.self
             /\ last' = Call("get_std_transmission", band, 0, 0, w, self, r.out)
    /\ UNCHANGED <<ccd_file, atm_file, pc>>

Next ==
    \/ Construct
    \/ SetWavelengths
    \/ GetWavelengths
    \/ GetTransmission
    \/ GetStdTransmission

Spec == Init /\ [][Next]_vars

-----------------------------------------------------------------------------
(* Vocabulary of the properties *)

\* b is one of the bands the constructor discovered.
Loaded(b) == \E i \in DOMAIN self.bands : self.bands[i] = b

\* e is the exposure identifier of a per-exposure row (input rows 2..N).
PresentExposure(e) == \E i \in 3..Len(atm_file.expnum) : atm_file.expnum[i] = e

\* d is within [1, detector_count].
InDetectorRange(d) == 1 <= d /\ d <= self.nccd.val

\* g is non-empty and lies within the measured atmospheric wavelengths.
InMeasuredRange(g) ==
    /\ Len(g) > 0
    /\ \A i \in 1..Len(g) :
         /\ self.atm_wavelengths[1] <= g[i]
         /\ g[i] <= self.atm_wavelengths[Len(self.atm_wavelengths)]

\* The last call was made on an engine on which no grid was ever set.
OnFreshEngine == last.pre.wavelengths = None /\ last.pre.band_tput_interp = Unset

\* The first and last wavelength the tests expect of the default grid.
DefaultFirst == 3000

DefaultLast == 11000

\* The extension that decides the record of band b: the last one named b_*.
LastHdu(b) ==
    CHOOSE i \in DOMAIN ccd_file :
        /\ Split0(ccd_file[i].extname) = b
        /\ \A j \in DOMAIN ccd_file : Split0(ccd_file[j].extname) = b => j <= i

\* The content of the two input tables, as the data model describes it.
LoadedInstrumentTable ==
    [b \in {Split0(ccd_file[i].extname) : i \in DOMAIN ccd_file} |-> ccd_file[LastHdu(b)].data]

LoadedAtmosphereTable ==
    [throughput |-> SubSeq(atm_file.throughput, 3, Len(atm_file.throughput)),
     expnum |-> SubSeq(atm_file.expnum, 3, Len(atm_file.expnum))]

-----------------------------------------------------------------------------
(* Properties *)

\* C1 (grid round-trip): a set_wavelengths(g) with a non-empty g returns
\* normally, and get_wavelengths() then returns a sequence equal to g.
GridRoundTrip ==
    (last.op = "set_wavelengths" /\ Len(last.wavelengths.val) > 0)
        => /\ last.out = Return(None)
           /\ get_wavelengths(self).out = Return(last.wavelengths)

\* C2 (default grid): right after construction get_wavelengths() returns a
\* non-empty grid that starts at 3000 and ends at 11000, not None.
DefaultGridAfterConstruction ==
    (pc = "ready" /\ last.op = "init")
        => LET g == get_wavelengths(self).out.val
           IN  /\ g # None
               /\ Len(g.val) > 0
               /\ g.val[1] = DefaultFirst
               /\ g.val[Len(g.val)] = DefaultLast

\* C3 (lazy cache): on an engine on which no grid was ever set, a query
\* without a wavelengths argument for a loaded band (and, for
\* get_transmission, a present exposure and a detector in range) returns a
\* curve.
LazyCacheOnFirstUse ==
    (/\ pc = "ready"
     /\ OnFreshEngine
     /\ last.wavelengths = None
     /\ Loaded(last.band)
     /\ \/ last.op = "get_std_transmission"
        \/ /\ last.op = "get_transmission"
           /\ PresentExposure(last.expnum)
           /\ InDetectorRange(last.ccdnum))
        => last.out.kind = "return"

\* C4 (unknown band): get_std_transmission(b), and get_transmission(b, e, 1)
\* with e a present exposure, fail with ValueError when b is not a loaded
\* band, in every state of the engine.
UnknownBandFailure ==
    (/\ pc = "ready"
     /\ ~Loaded(last.band)
     /\ \/ last.op = "get_std_transmission"
        \/ /\ last.op = "get_transmission"
           /\ PresentExposure(last.expnum)
           /\ last.ccdnum = 1)
        => last.out.kind = "raise" /\ last.out.exc = "ValueError"

\* C5 (unknown exposure): get_transmission(b, e, d) with b loaded, d in range
\* and e the identifier of no per-exposure row fails with ValueError.
UnknownExposureFailure ==
    (/\ pc = "ready"
     /\ last.op = "get_transmission"
     /\ Loaded(last.band)
     /\ InDetectorRange(last.ccdnum)
     /\ ~PresentExposure(last.expnum))
        => last.out.kind = "raise" /\ last.out.exc = "ValueError"

\* C6 (detector range): get_transmission(b, e, d) with b loaded and e present
\* fails with ValueError when d is outside [1, detector_count], and does not
\* fail the detector check when d is inside.
DetectorRangeFailure ==
    (/\ pc = "ready"
     /\ last.op = "get_transmission"
     /\ Loaded(last.band)
     /\ PresentExposure(last.expnum))
        => IF InDetectorRange(last.ccdnum)
           THEN last.out # Raise("ValueError", 95)
           ELSE last.out.kind = "raise" /\ last.out.exc = "ValueError"

\* C7 (cache stability): set_wavelengths(g) on an engine whose grid is
\* already g returns without error and leaves the grid, the per-band vectors
\* and the per-detector matrices as they were.
CacheStability ==
    (last.op = "set_wavelengths" /\ last.pre.wavelengths = last.wavelengths)
        => /\ last.out.kind = "return"
           /\ self.wavelengths = last.pre.wavelengths
           /\ self.band_tput_interp = last.pre.band_tput_interp
           /\ self.band_ccd_interp = last.pre.band_ccd_interp

\* The step is a get_transmission call that repeats the arguments of the
\* get_transmission call before it.
RepeatedQuery ==
    /\ last.op = "get_transmission"
    /\ last'.op = "get_transmission"
    /\ last'.band = last.band
    /\ last'.expnum = last.expnum
    /\ last'.ccdnum = last.ccdnum
    /\ last'.wavelengths = last.wavelengths

\* Two outcomes are the same: the same returned value, or the same exception.
SameOutcome(a, b) ==
    /\ a.kind = b.kind
    /\ a.kind = "return" => a.val = b.val
    /\ a.kind = "raise" => a.exc = b.exc

\* C8 (idempotent query): two consecutive get_transmission calls with the
\* same arguments have the same outcome, and for a loaded band, a present
\* exposure, a detector in range and a grid within the measured range that
\* outcome is a returned curve, both times.
IdempotentQuery ==
    [][RepeatedQuery
         => /\ SameOutcome(last.out, last'.out)
            /\ (/\ Loaded(last.band)
                /\ PresentExposure(last.expnum)
                /\ InDetectorRange(last.ccdnum)
                /\ last.wavelengths # None
                /\ InMeasuredRange(last.wavelengths.val))
                   => last.out.kind = "return" /\ last'.out.kind = "return"]_vars

\* C10 (tables loaded and immutable): once the constructor has returned, and
\* in every later state, the instrument table holds the record of every
\* discovered band and the atmosphere table holds the per-exposure rows.
TablesLoadedAndImmutable ==
    pc = "ready"
        => /\ self.ccd_data = Obj(LoadedInstrumentTable)
           /\ \A i \in DOMAIN self.bands : self.bands[i] \in DOMAIN LoadedInstrumentTable
           /\ self.atm_data = Obj(LoadedAtmosphereTable)

\* The last call was one of the three query operations.
QueryCall == last.op \in {"get_wavelengths", "get_transmission", "get_std_transmission"}

\* The last call left the two tables and what was read with them as they were.
TablesUnchanged ==
    /\ self.ccd_data = last.pre.ccd_data
    /\ self.atm_data = last.pre.atm_data
    /\ self.bands = last.pre.bands
    /\ self.nccd = last.pre.nccd
    /\ self.atm_wavelengths = last.pre.atm_wavelengths
    /\ self.atm_std = last.pre.atm_std

\* The last call left the grid and the per-band cache as they were.
GridAndCacheUnchanged ==
    /\ self.wavelengths = last.pre.wavelengths
    /\ self.band_tput_interp = last.pre.band_tput_interp
    /\ self.band_ccd_interp = last.pre.band_ccd_interp

\* C11 as stated (confined side effects): a query changes nothing but the
\* grid and the per-band interpolation cache, and neither of them when it is
\* called without a wavelengths argument.
QueryChangesOnlyGridAndCache ==
    QueryCall
        => /\ TablesUnchanged
           /\ self.std_ifunc = last.pre.std_ifunc
           /\ last.wavelengths = None => GridAndCacheUnchanged

\* C11 as amended: a query changes nothing but the grid, the per-band cache
\* and, for get_std_transmission only, the standard-atmosphere interpolant,
\* which goes from unset to built once; a query without a wavelengths
\* argument leaves the grid and the per-band cache unchanged.
QueryFrame ==
    QueryCall
        => /\ TablesUnchanged
           /\ \/ self.std_ifunc = last.pre.std_ifunc
              \/ /\ last.op = "get_std_transmission"
                 /\ last.pre.std_ifunc = None
                 /\ self.std_ifunc = Obj(interp1d(self.atm_wavelengths, self.atm_std))
           /\ last.wavelengths = None => GridAndCacheUnchanged

\* A get_std_transmission call without a wavelengths argument, on an engine
\* that has a grid, has built the standard-atmosphere interpolant.
QueryFrameWitness ==
    /\ last.op = "get_std_transmission"
    /\ last.wavelengths = None
    /\ last.pre.wavelengths # None
    /\ last.pre.std_ifunc = None
    /\ self.std_ifunc # None
    /\ GridAndCacheUnchanged

\* g has a point below the smallest or above the largest measured wavelength
\* of the sequence x.
OutsideMeasured(g, x) == \E i \in 1..Len(g) : g[i] < x[1] \/ g[i] > x[Len(x)]

\* C13 (extrapolation policy): set_wavelengths(g) with a point of g outside
\* the measured wavelengths of a band does not fail, and the cached average
\* vector of every loaded band holds, at each point, the linear value from
\* the nearest measured segment floored at zero.
ExtrapolationPolicy ==
    (/\ last.op = "set_wavelengths"
     /\ \E b \in DOMAIN LoadedInstrumentTable :
            OutsideMeasured(last.wavelengths.val, LoadedInstrumentTable[b].lambda))
        => /\ last.out.kind = "return"
           /\ \A b \in DOMAIN LoadedInstrumentTable :
                LET rec == LoadedInstrumentTable[b]
                    g == last.wavelengths.val
                IN  self.band_tput_interp.val[b] =
                        [i \in 1..Len(g) |->
                            clip(Linear(rec.lambda, rec.throughput_avg, g[i]))]

\* C14 (cache-grid consistency): whenever the engine has a grid g, the cache
\* holds for every loaded band a vector of |g| values and a matrix of |g|
\* rows by detector_count columns.
CacheGridConsistency ==
    (pc = "ready" /\ self.wavelengths # None)
        => /\ self.band_tput_interp # Unset
           /\ self.band_ccd_interp # Unset
           /\ \A n \in DOMAIN self.bands :
                LET b == self.bands[n]
                    g == self.wavelengths.val
                IN  /\ b \in DOMAIN self.band_tput_interp.val
                    /\ Len(self.band_tput_interp.val[b]) = Len(g)
                    /\ b \in DOMAIN self.band_ccd_interp.val
                    /\ Len(self.band_ccd_interp.val[b]) = Len(g)
                    /\ \A i \in 1..Len(g) :
                         Len(self.band_ccd_interp.val[b][i]) = self.nccd.val

\* C15 (grid change with equal length): set_wavelengths(g2) on an engine
\* whose grid g1 has the length of g2 and differs from it in an element
\* returns without error and stores g2.
GridChangeEqualLength ==
    (/\ last.op = "set_wavelengths"
     /\ last.pre.wavelengths # None
     /\ Len(last.pre.wavelengths.val) = Len(last.wavelengths.val)
     /\ last.pre.wavelengths # last.wavelengths)
        => /\ last.out = Return(None)
           /\ self.wavelengths = last.wavelengths

\* The engine the constructor gives for the two input files, and that engine
\* after g was given to it as its first grid.
FreshEngine == FgcmDesTransmission(ccd_file, atm_file).self

FreshEngineWith(g) == set_wavelengths(FreshEngine, g).self

\* The step is a query without a wavelengths argument, with valid arguments,
\* made right after a set_wavelengths(g2) on an engine whose grid was another
\* grid g1, g2 lying within the measured range.
QueryAfterGridChange ==
    /\ last.op = "set_wavelengths"
    /\ last.pre.wavelengths # None
    /\ last.pre.wavelengths # last.wavelengths
    /\ InMeasuredRange(last.wavelengths.val)
    /\ last'.wavelengths = None
    /\ Loaded(last'.band)
    /\ \/ last'.op = "get_std_transmission"
       \/ /\ last'.op = "get_transmission"
          /\ PresentExposure(last'.expnum)
          /\ InDetectorRange(last'.ccdnum)

\* C16 (no stale results): a query that follows a change of the grid from g1
\* to g2 returns the curve that a fresh engine given g2 as its first grid
\* returns.
NoStaleResults ==
    [][QueryAfterGridChange
         => /\ last'.out.kind = "return"
            /\ last'.out =
                 IF last'.op = "get_std_transmission"
                 THEN get_std_transmission(FreshEngineWith(last.wavelengths.val),
                                           last'.band, None).out
                 ELSE get_transmission(FreshEngineWith(last.wavelengths.val),
                                       last'.band, last'.expnum, last'.ccdnum, None).out]_vars

\* C17 (validation order): a get_transmission call reports the absent
\* exposure first (line 91), else the detector out of range (line 95), else
\* the unknown band (line 98).
ValidationOrder ==
    (pc = "ready" /\ last.op = "get_transmission" /\ last.wavelengths = None)
        => IF ~PresentExposure(last.expnum) THEN last.out = Raise("ValueError", 91)
           ELSE IF ~InDetectorRange(last.ccdnum) THEN last.out = Raise("ValueError", 95)
           ELSE IF ~Loaded(last.band) THEN last.out = Raise("ValueError", 98)
           ELSE TRUE

\* The last call was a query with an argument that validation rejects.
InvalidQuery ==
    \/ /\ last.op = "get_std_transmission"
       /\ ~Loaded(last.band)
    \/ /\ last.op = "get_transmission"
       /\ \/ ~Loaded(last.band)
          \/ ~PresentExposure(last.expnum)
          \/ ~InDetectorRange(last.ccdnum)

\* C18 (grid switch precedes validation): after a query that carried a grid
\* g other than the engine's grid and an invalid argument, the engine's grid
\* is g and the cache of every loaded band is on g.
GridSwitchPrecedesValidation ==
    (/\ pc = "ready"
     /\ InvalidQuery
     /\ last.wavelengths # None
     /\ last.pre.wavelengths # last.wavelengths)
        => /\ self.wavelengths = last.wavelengths
           /\ \A n \in DOMAIN self.bands :
                /\ self.bands[n] \in DOMAIN self.band_tput_interp.val
                /\ Len(self.band_tput_interp.val[self.bands[n]]) = Len(last.wavelengths.val)

\* The atmospheric row of exposure e: the first per-exposure row that has it.
ExposureRow(e) ==
    atm_file.throughput[CHOOSE i \in 3..Len(atm_file.expnum) :
                            /\ atm_file.expnum[i] = e
                            /\ \A j \in 3..(i - 1) : atm_file.expnum[j] # e]

\* C19 (combination, 1-based detectors): get_transmission(b, e, d) with b
\* loaded, e present and d in range, on an engine that has a grid, returns
\* at each grid point the clamped linear value of e's atmospheric row times
\* the cached per-detector value of b in column d - 1 (0-based).
CombinationAndDetectorMapping ==
    (/\ pc = "ready"
     /\ last.op = "get_transmission"
     /\ last.wavelengths = None
     /\ last.pre.wavelengths # None
     /\ Loaded(last.band)
     /\ PresentExposure(last.expnum)
     /\ InDetectorRange(last.ccdnum))
        => /\ last.out.kind = "return"
           /\ last.out.val =
                Obj([i \in 1..Len(self.wavelengths.val) |->
                       clip(Linear(self.atm_wavelengths, ExposureRow(last.expnum),
                                   self.wavelengths.val[i]))
                       * Column(self.band_ccd_interp.val[last.band], last.ccdnum - 1)[i]])

====
